---- MODULE Spec2Model ----
(***************************************************************************)
(* Model of backend/main.py: the upload store (POST /upload), the lookup   *)
(* by identifier (_find_file_by_id), the two OCR endpoints (/extract and   *)
(* /parse) and the keyword parser parse_ladder_from_text.                  *)
(*                                                                         *)
(* Text (file names, identifiers, OCR output) is a sequence of one-        *)
(* character strings, so that suffixes, glob patterns, case folding and    *)
(* slicing are computed character by character as Python computes them.    *)
(* File contents are opaque tokens; the empty token is the empty file.     *)
(***************************************************************************)
EXTENDS Integers, Sequences, FiniteSets, TLC

VARIABLES
    store,            \* UPLOAD_DIR: file name -> file contents
    OCR_AVAILABLE,    \* set once at import time (lines 8-13)
    used,             \* identifiers uuid4 has produced so far
    pc,               \* per request handler: where it stands
    local,            \* per request handler: its local variables
    resp,             \* the HTTP response the last step sent, if it sent one
    returned,         \* the successful upload responses sent so far
    adapter_invoked,  \* whether Image.open / pytesseract has ever been called
    raw_text,         \* argument of a direct parse_ladder_from_text call
    report            \* its result

vars == <<store, OCR_AVAILABLE, used, pc, local, resp, returned,
          adapter_invoked, raw_text, report>>

----------------------------------------------------------------------------
(* Bounds *)

NumProcs == 2

Procs == 1..NumProcs

----------------------------------------------------------------------------
(* Python str operations *)

Min(a, b) == IF a < b THEN a ELSE b

UpperChars == <<"A","B","C","D","E","F","G","H","I","J","K","L","M",
                "N","O","P","Q","R","S","T","U","V","W","X","Y","Z">>
LowerChars == <<"a","b","c","d","e","f","g","h","i","j","k","l","m",
                "n","o","p","q","r","s","t","u","v","w","x","y","z">>

LowerChar(c) ==
    IF \E i \in 1..26 : UpperChars[i] = c
    THEN LowerChars[CHOOSE i \in 1..26 : UpperChars[i] = c]
    ELSE c

\* str.lower()
Lower(s) == [i \in 1..Len(s) |-> LowerChar(s[i])]

\* the characters str.strip() removes
Whitespace == {" ", "\t", "\n", "\r", "\f"}

\* str.strip()
Strip(s) ==
    IF \A i \in 1..Len(s) : s[i] \in Whitespace
    THEN << >>
    ELSE LET first == CHOOSE i \in 1..Len(s) :
                          /\ s[i] \notin Whitespace
                          /\ \A j \in 1..(i-1) : s[j] \in Whitespace
             last  == CHOOSE i \in 1..Len(s) :
                          /\ s[i] \notin Whitespace
                          /\ \A j \in (i+1)..Len(s) : s[j] \in Whitespace
         IN  SubSeq(s, first, last)

\* str.replace("\n", " ")
ReplaceNewlines(s) == [i \in 1..Len(s) |-> IF s[i] = "\n" THEN " " ELSE s[i]]

\* k in s
Contains(s, k) ==
    \E i \in 1..(Len(s) - Len(k) + 1) :
        \A j \in 1..Len(k) : s[i + j - 1] = k[j]

\* s[:n]
Prefix(s, n) == SubSeq(s, 1, Min(n, Len(s)))

----------------------------------------------------------------------------
(* Constants of the program *)

TEXT_CAP == 8000

SAMPLE_CAP == 500

ALLOWED_EXT == { <<".","p","n","g">>, <<".","j","p","g">>,
                 <<".","j","p","e","g">>, <<".","w","e","b","p">> }

DEFAULT_EXT == <<".","p","n","g">>

----------------------------------------------------------------------------
(* parse_ladder_from_text *)

KW_over       == <<"o","v","e","r">>
KW_under      == <<"u","n","d","e","r">>
KW_total      == <<"t","o","t","a","l">>
KW_totals     == <<"t","o","t","a","l","s">>
KW_1st        == <<"1","s","t">>
KW_1_half     == <<"1"," ","h","a","l","f">>
KW_first_half == <<"f","i","r","s","t"," ","h","a","l","f">>

\* faulty variant: the newlines are left in the text
NormalizeText_KeepNewlines(raw) == Strip(raw)

\* line 198: text = raw_text.replace("\n", " ").strip()
NormalizeText(raw) == Strip(ReplaceNewlines(raw))

\* lines 201-206
Signals(lowered) ==
    [ mentions_over     |-> Contains(lowered, KW_over),
      mentions_under    |-> Contains(lowered, KW_under),
      mentions_total    |-> Contains(lowered, KW_total) \/ Contains(lowered, KW_totals),
      mentions_1st_half |-> \/ Contains(lowered, KW_1st)
                            \/ Contains(lowered, KW_1_half)
                            \/ Contains(lowered, KW_first_half) ]

\* faulty variant: the sample is cut from the lower-cased text
RawSample_Lowered(text) == Prefix(Lower(text), SAMPLE_CAP)

\* line 210: text[:500]
RawSample(text) == Prefix(text, SAMPLE_CAP)

parse_ladder_from_text(raw) ==
    LET text    == NormalizeText(raw)
        lowered == Lower(text)
    IN  [ signals    |-> Signals(lowered),
          raw_sample |-> RawSample(text),
          ladder     |-> "None",
          note       |-> "Parser v1 stub. Next step will extract structured ladder rows." ]

----------------------------------------------------------------------------
(* pathlib: Path(name).suffix and Path.glob *)

NoFilename == [given |-> FALSE, name |-> << >>]

Named(s) == [given |-> TRUE, name |-> s]

LastIndexOf(s, c) ==
    IF \E i \in 1..Len(s) : s[i] = c
    THEN CHOOSE i \in 1..Len(s) : s[i] = c /\ \A j \in (i+1)..Len(s) : s[j] # c
    ELSE 0

\* Path(s).name: the last component, "" when there is none; empty and "."
\* components are dropped by the path parser.
RECURSIVE PathName(_)
PathName(s) ==
    IF s = << >> THEN << >>
    ELSE LET k    == LastIndexOf(s, "/")
             tail == SubSeq(s, k + 1, Len(s))
         IN  IF tail = << >> \/ tail = <<".">>
             THEN IF k = 0 THEN << >> ELSE PathName(SubSeq(s, 1, k - 1))
             ELSE tail

\* Path(s).suffix: from the last dot of the name, unless that dot is the
\* first or the last character of the name.
PathSuffix(s) ==
    LET name == PathName(s)
        i    == LastIndexOf(name, ".")
    IN  IF 1 < i /\ i < Len(name) THEN SubSeq(name, i, Len(name)) ELSE << >>

\* faulty variant: the suffix is not lower-cased
RawExt_CaseKept(filename) ==
    IF filename.given /\ filename.name # << >>
    THEN PathSuffix(filename.name)
    ELSE DEFAULT_EXT

\* line 134
RawExt(filename) ==
    IF filename.given /\ filename.name # << >>
    THEN Lower(PathSuffix(filename.name))
    ELSE DEFAULT_EXT

\* lines 134-136
NormalizeExt(filename) ==
    LET ext == RawExt(filename)
    IN  IF ext \notin ALLOWED_EXT THEN DEFAULT_EXT ELSE ext

\* line 138: UPLOAD_DIR / f"{file_id}{ext}"
SaveName(file_id, ext) == file_id \o ext

\* fnmatch of one directory entry against a pattern of literal characters,
\* "*" and "?" (the identifiers drawn below hold no "[").
RECURSIVE FnMatch(_, _)
FnMatch(n, p) ==
    IF p = << >> THEN n = << >>
    ELSE IF Head(p) = "*"
         THEN FnMatch(n, Tail(p)) \/ (n # << >> /\ FnMatch(Tail(n), p))
         ELSE /\ n # << >>
              /\ (Head(p) = "?" \/ Head(p) = Head(n))
              /\ FnMatch(Tail(n), Tail(p))

\* faulty variant: the lookup assumes the default extension
GlobPattern_PngOnly(file_id) == file_id \o DEFAULT_EXT

\* line 159: the pattern f"{file_id}.*"
GlobPattern(file_id) == file_id \o <<".", "*">>

\* Before Python 3.13 Path.glob raises ValueError for a pattern component that
\* holds "**" next to other characters; from 3.13 on it reads "**" as "*".
GlobMayRaise(file_id) == Contains(GlobPattern(file_id), <<"*","*">>)

\* line 159: list(UPLOAD_DIR.glob(...)), as a set (the order is the directory's)
Matches(dir, file_id) ==
    {n \in DOMAIN dir : FnMatch(n, GlobPattern(file_id))}

----------------------------------------------------------------------------
(* Requests: the values the clients send *)

StartsWith(s, prefix) ==
    Len(s) >= Len(prefix) /\ SubSeq(s, 1, Len(prefix)) = prefix

NoContentType == [given |-> FALSE, value |-> << >>]

ContentTypes ==
    { NoContentType,
      [given |-> TRUE, value |-> <<"i","m","a","g","e","/","p","n","g">>],
      [given |-> TRUE, value |-> <<"t","e","x","t","/","p","l","a","i","n">>] }

Filenames ==
    { NoFilename,
      Named(<<"p","h","o","t","o",".","G","I","F">>),
      Named(<<"p","h","o","t","o",".","J","P","G">>),
      Named(<<"a",".","b",".","J","p","e","g">>),
      Named(<<"s",".","w","e","b","p">>),
      Named(<<".","j","p","g">>),
      Named(<<"p","h","o","t","o",".">>),
      Named(<<"d",".","j","p","g","/","s","h","o","t">>),
      Named(<<"d","/",".","j","p","g">>) }

\* file contents: the empty body and two images
EmptyBytes == ""

Payloads == { EmptyBytes, "IMG_TEXT", "IMG_CORRUPT" }

\* the values uuid.uuid4() can return (hexadecimal digits, no dot, no wildcard)
Uuids == { <<"a","a">>, <<"a","b">> }

\* the values of the {file_id} path parameter: any text without a slash
RequestIds ==
    Uuids \cup { <<"f","f">>, <<"*">>, <<"a","?">>, <<"*","*">> }

----------------------------------------------------------------------------
(* The OCR engine: Image.open(path) and pytesseract.image_to_string(img) *)

OcrTextShort ==
    <<" ","O","v","e","r","\n","F","i","r","s","t","\n","H","a","l","f","\n","\f">>

\* "Total", padding up to TEXT_CAP characters, and only then "over"
OcrTextLong ==
    <<"T","o","t","a","l">> \o [i \in 1..(TEXT_CAP - 5) |-> "x"]
        \o <<"o","v","e","r","\n">>

\* padding, and "under" lying across the TEXT_CAP-th character
OcrTextEdge ==
    [i \in 1..(TEXT_CAP - 3) |-> "x"] \o <<"U","n","d","e","r","\n">>

\* lines 183-184 / 230-231: the text read off the image, or the exception raised
image_to_string(bytes) ==
    CASE bytes = "IMG_TEXT" -> [ok |-> TRUE,  text |-> OcrTextShort, error |-> ""]
      [] bytes = "IMG_LONG" -> [ok |-> TRUE,  text |-> OcrTextLong,  error |-> ""]
      [] bytes = "IMG_EDGE" -> [ok |-> TRUE,  text |-> OcrTextEdge,  error |-> ""]
      [] OTHER              -> [ok |-> FALSE, text |-> << >>,
                                error |-> "cannot identify image file"]

----------------------------------------------------------------------------
(* Responses *)

NoResponse == [kind |-> "none", file_id |-> << >>, status |-> 0, body |-> [none |-> TRUE]]

Response(kind, file_id, status, body) ==
    [kind |-> kind, file_id |-> file_id, status |-> status, body |-> body]

\* faulty variant: the exception is answered in the shape of the 501 and 500 bodies
HTTPExceptionBody_OkError(detail) == [ok |-> FALSE, error |-> detail]

\* raise HTTPException(status_code, detail): FastAPI answers {"detail": detail}
HTTPExceptionBody(detail) == [detail |-> detail]

\* an exception no handler catches: the server answers 500 with a plain text
UnhandledBody == [plain |-> "Internal Server Error"]

\* lines 146-155
UploadOkBody(file_id, save_name) ==
    [ ok        |-> TRUE,
      file_id   |-> file_id,
      filename  |-> save_name,
      stored_at |-> <<"u","p","l","o","a","d","s","/">> \o save_name,
      next      |-> [ extract_text |-> <<"/","e","x","t","r","a","c","t","/">> \o file_id,
                      parse        |-> <<"/","p","a","r","s","e","/">> \o file_id ] ]

\* lines 173-180 and 224-227
UnavailableBody(kind) ==
    IF kind = "extract"
    THEN [ ok    |-> FALSE,
           error |-> "OCR dependencies not available in this environment.",
           hint  |-> "If you want OCR on Replit, we may need a different approach than Tesseract." ]
    ELSE [ ok    |-> FALSE,
           error |-> "OCR not available; cannot parse yet." ]

\* lines 187-190 and 240-243
FailedBody(kind, e) ==
    [ ok     |-> FALSE,
      error  |-> IF kind = "extract" THEN "OCR failed" ELSE "Parse failed",
      detail |-> e ]

\* faulty variant: the text is returned whole
CapText_Whole(raw) == raw

\* line 185: raw[:8000]
CapText(raw) == Prefix(raw, TEXT_CAP)

\* line 185
ExtractOkBody(file_id, raw) ==
    [ok |-> TRUE, file_id |-> file_id, text |-> CapText(raw)]

\* line 232: the text handed to parse_ladder_from_text
ParseInput(raw) == raw

\* lines 232-238
ParseOkBody(file_id, raw) ==
    [ok |-> TRUE, file_id |-> file_id, parsed |-> parse_ladder_from_text(ParseInput(raw))]

----------------------------------------------------------------------------
(* State *)

NoLocal ==
    [ kind |-> "none", file_id |-> << >>, content_type |-> NoContentType,
      filename |-> NoFilename, save_name |-> << >>, content |-> EmptyBytes, img_path |-> << >> ]

NoReport == [none |-> TRUE]

\* lines 8-28: the module as imported, the upload directory empty
InitServer ==
    /\ store = << >>
    /\ OCR_AVAILABLE \in BOOLEAN
    /\ used = {}
    /\ pc = [p \in Procs |-> "idle"]
    /\ local = [p \in Procs |-> NoLocal]
    /\ resp = NoResponse
    /\ returned = {}
    /\ adapter_invoked = FALSE

Init ==
    /\ InitServer
    /\ raw_text = << >>
    /\ report = NoReport

\* line 130
IsImage(ct) ==
    ct.given /\ ct.value # << >> /\ StartsWith(ct.value, <<"i","m","a","g","e","/">>)

\* faulty variant: the empty check is missing
IsEmpty_Never(content) == FALSE

\* line 141: not content
IsEmpty(content) == content = EmptyBytes

\* faulty variant: an identifier can come back
FreshUuids_Repeating(taken) == Uuids

\* line 133: uuid4 never returns a value it has returned before
FreshUuids(taken) == Uuids \ taken

\* open(save_path, "wb"): the file exists and is empty
OpenForWrite(dir, name) ==
    [n \in (DOMAIN dir) \cup {name} |-> IF n = name THEN EmptyBytes ELSE dir[n]]

\* f.write(content) on the file just opened
WriteBytes(dir, name, content) == [dir EXCEPT ![name] = content]

\* lines 159-162: every outcome the lookup can have
find_file_by_id(dir, file_id) ==
    (IF GlobMayRaise(file_id)
     THEN {[result |-> "ValueError", path |-> << >>]} ELSE {})
    \cup
    (IF Matches(dir, file_id) = {}
     THEN {[result |-> "NotFound", path |-> << >>]}
     ELSE {[result |-> "found", path |-> m] : m \in Matches(dir, file_id)})

----------------------------------------------------------------------------
(* POST /upload *)

\* lines 130-138: the content type check, the identifier, the target path
UploadBegin(p, filenames) ==
    /\ pc[p] = "idle"
    /\ \E ct \in ContentTypes, fn \in filenames :
          IF ~IsImage(ct)
          THEN /\ resp' = Response("upload", << >>, 400,
                              HTTPExceptionBody("Only image uploads are supported."))
               /\ UNCHANGED <<used, pc, local>>
          ELSE \E file_id \in FreshUuids(used) :
               /\ used' = used \cup {file_id}
               /\ local' = [local EXCEPT ![p] =
                              [ kind      |-> "upload",
                                file_id   |-> file_id,
                                content_type |-> ct,
                                filename  |-> fn,
                                save_name |-> SaveName(file_id, NormalizeExt(fn)),
                                content   |-> EmptyBytes,
                                img_path  |-> << >> ]]
               /\ pc' = [pc EXCEPT ![p] = "read"]
               /\ resp' = NoResponse
    /\ UNCHANGED <<store, OCR_AVAILABLE, returned, adapter_invoked, raw_text, report>>

\* lines 140-144: await file.read(), the empty check, and write_bytes opening
\* the target file
UploadRead(p, payloads) ==
    /\ pc[p] = "read"
    /\ \E content \in payloads :
          IF IsEmpty(content)
          THEN /\ resp' = Response("upload", << >>, 400, HTTPExceptionBody("Empty file."))
               /\ pc' = [pc EXCEPT ![p] = "idle"]
               /\ local' = [local EXCEPT ![p] = NoLocal]
               /\ UNCHANGED store
          ELSE /\ store' = OpenForWrite(store, local[p].save_name)
               /\ local' = [local EXCEPT ![p].content = content]
               /\ pc' = [pc EXCEPT ![p] = "write"]
               /\ resp' = NoResponse
    /\ UNCHANGED <<OCR_AVAILABLE, used, returned, adapter_invoked, raw_text, report>>

\* lines 144-155: write_bytes writing the content, and the answer
UploadWrite(p) ==
    /\ pc[p] = "write"
    /\ store' = WriteBytes(store, local[p].save_name, local[p].content)
    /\ resp' = Response("upload", << >>, 200,
                        UploadOkBody(local[p].file_id, local[p].save_name))
    /\ returned' = returned \cup
          {[ file_id  |-> local[p].file_id,
             filename |-> local[p].save_name,
             content  |-> local[p].content ]}
    /\ pc' = [pc EXCEPT ![p] = "idle"]
    /\ local' = [local EXCEPT ![p] = NoLocal]
    /\ UNCHANGED <<OCR_AVAILABLE, used, adapter_invoked, raw_text, report>>

----------------------------------------------------------------------------
(* GET /extract/{file_id} and GET /parse/{file_id} *)

\* lines 170-180 and 221-227: the lookup and the availability check
Lookup(p, kind, ids) ==
    /\ pc[p] = "idle"
    /\ \E file_id \in ids : \E found \in find_file_by_id(store, file_id) :
          CASE found.result = "ValueError" ->
                 /\ resp' = Response(kind, file_id, 500, UnhandledBody)
                 /\ UNCHANGED <<pc, local>>
            [] found.result = "NotFound" ->
                 /\ resp' = Response(kind, file_id, 404,
                                     HTTPExceptionBody("File not found. Upload first."))
                 /\ UNCHANGED <<pc, local>>
            [] OTHER ->
                 IF ~OCR_AVAILABLE
                 THEN /\ resp' = Response(kind, file_id, 501, UnavailableBody(kind))
                      /\ UNCHANGED <<pc, local>>
                 ELSE /\ local' = [local EXCEPT ![p] =
                                     [NoLocal EXCEPT !.kind = kind,
                                                     !.file_id = file_id,
                                                     !.img_path = found.path]]
                      /\ pc' = [pc EXCEPT ![p] = "ocr"]
                      /\ resp' = NoResponse
    /\ UNCHANGED <<store, OCR_AVAILABLE, used, returned, adapter_invoked, raw_text, report>>

\* lines 182-190 and 229-243: the OCR call and the answer
Recognize(p, kind) ==
    /\ pc[p] = "ocr"
    /\ local[p].kind = kind
    /\ adapter_invoked' = TRUE
    /\ LET r == image_to_string(store[local[p].img_path])
       IN  IF ~r.ok
           THEN resp' = Response(kind, local[p].file_id, 500, FailedBody(kind, r.error))
           ELSE LET raw == Strip(r.text)
                IN  resp' = Response(kind, local[p].file_id, 200,
                                     IF kind = "extract"
                                     THEN ExtractOkBody(local[p].file_id, raw)
                                     ELSE ParseOkBody(local[p].file_id, raw))
    /\ pc' = [pc EXCEPT ![p] = "idle"]
    /\ local' = [local EXCEPT ![p] = NoLocal]
    /\ UNCHANGED <<store, OCR_AVAILABLE, used, returned, raw_text, report>>

extract_text_lookup(p, ids) == Lookup(p, "extract", ids)

extract_text_ocr(p) == Recognize(p, "extract")

parse_uploaded_lookup(p, ids) == Lookup(p, "parse", ids)

parse_uploaded_ocr(p) == Recognize(p, "parse")

----------------------------------------------------------------------------
(* Concurrent clients; their requests are drawn from SomeFilenames,        *)
(* SomePayloads and SomeIds.                                                *)

SomeFilenames == { NoFilename, Named(<<"p","h","o","t","o",".","J","P","G">>) }

SomePayloads == Payloads

SomeIds == Uuids \cup { <<"*">> }

Next ==
    \E p \in Procs :
        \/ UploadBegin(p, SomeFilenames)
        \/ UploadRead(p, SomePayloads)
        \/ UploadWrite(p)
        \/ extract_text_lookup(p, SomeIds)
        \/ extract_text_ocr(p)
        \/ parse_uploaded_lookup(p, SomeIds)
        \/ parse_uploaded_ocr(p)

Spec == Init /\ [][Next]_vars

----------------------------------------------------------------------------
(* One client, one request at a time; its requests are drawn from every    *)
(* file name, payload and identifier above.                                 *)

NextSeq ==
    \/ UploadBegin(1, Filenames)
    \/ UploadRead(1, Payloads)
    \/ UploadWrite(1)
    \/ extract_text_lookup(1, RequestIds)
    \/ extract_text_ocr(1)
    \/ parse_uploaded_lookup(1, RequestIds)
    \/ parse_uploaded_ocr(1)

SpecSeq == Init /\ [][NextSeq]_vars

----------------------------------------------------------------------------
(* One client whose images hold long text.                                  *)

LongPayloads == { "IMG_TEXT", "IMG_LONG", "IMG_EDGE" }

NextLong ==
    \/ UploadBegin(1, {NoFilename})
    \/ UploadRead(1, LongPayloads)
    \/ UploadWrite(1)
    \/ extract_text_lookup(1, Uuids)
    \/ extract_text_ocr(1)
    \/ parse_uploaded_lookup(1, Uuids)
    \/ parse_uploaded_ocr(1)

SpecLong == Init /\ [][NextLong]_vars

----------------------------------------------------------------------------
(* parse_ladder_from_text called on its own, on the texts of TextInputs.    *)

Words1 ==
    { << >>, <<"f","i","r","s","t">>, <<"F","I","R","S","T">>, <<"1">>,
      <<"O","v","e","r">>, <<"x","t","o","t","a","l","s">> }

Words2 ==
    { << >>, <<"h","a","l","f">>, <<"H","a","L","f">>, <<"s","t">>,
      <<"U","N","D","E","R">>, <<"T","o","t","a","l">> }

Separators ==
    { << >>, <<" ">>, <<"\n">>, <<"\t">>, <<" "," ">>, <<"\n","\n">>,
      <<"\r","\n">>, <<"/">> }

ShortTexts ==
    { a \o sep \o b : a \in Words1, sep \in Separators, b \in Words2 }
    \cup { <<"O","v","e","r","/","U","n","d","e","r"," ","T","o","t","a","l",
             " ","1","s","t"," ","H","a","l","f">> }

\* n characters of mixed case with a newline at every seventh place
Fill(n) ==
    [i \in 1..n |-> IF i % 7 = 0 THEN "\n" ELSE IF i % 2 = 0 THEN "A" ELSE "b"]

Blanks(n) == [i \in 1..n |-> " "]

Leads == { << >>, <<" ">>, <<"\n","\t">>, Blanks(101) }

Trails == { << >>, <<"\n">>, Blanks(101) }

Lengths == { 202, 499, 500, 501, 600 }

LongTexts ==
    { lead \o Fill(n - Len(lead) - Len(trail)) \o trail :
          n \in Lengths, lead \in Leads, trail \in Trails }
    \cup { Blanks(600) }

TextInputs == ShortTexts \cup LongTexts

InitText ==
    /\ InitServer
    /\ raw_text \in TextInputs
    /\ report = NoReport

\* lines 193-213
ParseCall ==
    /\ report = NoReport
    /\ report' = parse_ladder_from_text(raw_text)
    /\ UNCHANGED <<store, OCR_AVAILABLE, used, pc, local, resp, returned,
                   adapter_invoked, raw_text>>

NextText == ParseCall

SpecText == InitText /\ [][NextText]_vars

----------------------------------------------------------------------------
(* Claims about parse_ladder_from_text (SpecText) *)

AllSignals(b) ==
    [ mentions_over |-> b, mentions_under |-> b,
      mentions_total |-> b, mentions_1st_half |-> b ]

\* every run of whitespace replaced by one space
RECURSIVE CollapseWhitespace(_)
CollapseWhitespace(s) ==
    IF s = << >> THEN << >>
    ELSE IF Head(s) \in Whitespace
         THEN IF Len(s) > 1 /\ s[2] \in Whitespace
              THEN CollapseWhitespace(Tail(s))
              ELSE <<" ">> \o CollapseWhitespace(Tail(s))
         ELSE <<Head(s)>> \o CollapseWhitespace(Tail(s))

\* kw occurs in raw, letters compared without case, a space of kw standing
\* for any character of gaps
ContainsWithGaps(raw, kw, gaps) ==
    \E i \in 1..(Len(raw) - Len(kw) + 1) :
        \A j \in 1..Len(kw) :
            IF kw[j] = " " THEN raw[i + j - 1] \in gaps
                           ELSE LowerChar(raw[i + j - 1]) = kw[j]

SignalsWithGaps(raw, gaps) ==
    [ mentions_over     |-> ContainsWithGaps(raw, KW_over, gaps),
      mentions_under    |-> ContainsWithGaps(raw, KW_under, gaps),
      mentions_total    |-> ContainsWithGaps(raw, KW_total, gaps),
      mentions_1st_half |-> \/ ContainsWithGaps(raw, KW_1st, gaps)
                            \/ ContainsWithGaps(raw, KW_1_half, gaps)
                            \/ ContainsWithGaps(raw, KW_first_half, gaps) ]

TextAllFour ==
    <<"O","v","e","r","/","U","n","d","e","r"," ","T","o","t","a","l",
      " ","1","s","t"," ","H","a","l","f">>

\* C7 as stated: the four signals are the case-insensitive containment checks
\* on the text with every run of whitespace (tabs, newlines, several spaces)
\* collapsed to one space; the empty text gives four times false and
\* "Over/Under Total 1st Half" four times true.
C7_SignalsOnCollapsedWhitespace ==
    report # NoReport =>
        /\ report.signals = Signals(Lower(CollapseWhitespace(raw_text)))
        /\ (raw_text = << >> => report.signals = AllSignals(FALSE))
        /\ (raw_text = TextAllFour => report.signals = AllSignals(TRUE))

\* C7 as amended: the four signals are the case-insensitive containment checks
\* in which a space of the keyword matches exactly one space or one newline
\* of the input, and nothing else: a tab, or a run of two or more spaces or
\* newlines, between "first" and "half" does not set mentions_1st_half. The
\* empty text gives four times false, "Over/Under Total 1st Half" four times
\* true.
C7_SignalsOnNewlineReplacedText ==
    report # NoReport =>
        /\ report.signals = SignalsWithGaps(raw_text, {" ", "\n"})
        /\ (raw_text = << >> => report.signals = AllSignals(FALSE))
        /\ (raw_text = TextAllFour => report.signals = AllSignals(TRUE))

C7_Witness ==
    /\ report # NoReport
    /\ raw_text = <<"f","i","r","s","t","\n","h","a","l","f">>
    /\ report.signals.mentions_1st_half

LeadingBlanks(t) ==
    Cardinality({i \in 1..Len(t) : \A j \in 1..i : t[j] \in Whitespace})

TrailingBlanks(t) ==
    Cardinality({i \in 1..Len(t) : \A j \in i..Len(t) : t[j] \in Whitespace})

\* C8 as stated: raw_sample is a prefix of the normalized text of at most 500
\* characters, and for every input of 600 characters it is exactly the first
\* 500 characters of the newline-replaced input.
C8_SampleIsPrefixOfInput ==
    report # NoReport =>
        LET t == ReplaceNewlines(raw_text)
        IN  /\ Len(report.raw_sample) <= 500
            /\ report.raw_sample =
                   SubSeq(NormalizeText(raw_text), 1, Len(report.raw_sample))
            /\ (Len(raw_text) = 600 => report.raw_sample = SubSeq(t, 1, 500))

\* C8 as amended: raw_sample is cut from the newline-replaced input after its
\* leading and trailing whitespace is removed: it starts at the first
\* character that is not whitespace, keeps the case, and is 500 characters
\* long or, when fewer are left, all of them. For an input of 600 characters
\* that neither starts nor ends with whitespace it is the first 500 characters
\* of the newline-replaced input.
C8_SampleIsPrefixOfStrippedText ==
    report # NoReport =>
        LET t    == ReplaceNewlines(raw_text)
            lead == LeadingBlanks(t)
            left == IF lead = Len(t) THEN 0 ELSE Len(t) - lead - TrailingBlanks(t)
            n    == IF left < 500 THEN left ELSE 500
        IN  /\ Len(report.raw_sample) = n
            /\ \A i \in 1..n : report.raw_sample[i] = t[lead + i]
            /\ (/\ Len(raw_text) = 600
                /\ raw_text[1] \notin Whitespace
                /\ raw_text[600] \notin Whitespace)
               => report.raw_sample = SubSeq(t, 1, 500)

C8_Witness ==
    /\ report # NoReport
    /\ Len(raw_text) = 600
    /\ raw_text[1] \notin Whitespace
    /\ raw_text[600] \notin Whitespace
    /\ \E i \in 1..600 : raw_text[i] = "\n"
    /\ Len(report.raw_sample) = 500

----------------------------------------------------------------------------
(* Claims about the store and the endpoints *)

PNG  == <<".","p","n","g">>
JPG  == <<".","j","p","g">>
JPEG == <<".","j","p","e","g">>
WEBP == <<".","w","e","b","p">>

EndsWith(s, e) ==
    Len(s) >= Len(e) /\ SubSeq(s, Len(s) - Len(e) + 1, Len(s)) = e

\* the identifier of a stored name: what stands before its first dot
IdOf(n) ==
    SubSeq(n, 1, (CHOOSE i \in 1..Len(n) :
                     n[i] = "." /\ \A j \in 1..(i-1) : n[j] # ".") - 1)

Uploading == {p \in Procs : pc[p] \in {"read", "write"}}

IsLookupResponse == resp.kind \in {"extract", "parse"}

\* C1: every upload that was answered with a file_id resolves, in every later
\* state, to exactly one stored object, named file_id + extension, whose bytes
\* are the non-empty payload that was uploaded; every 200 of /upload carries
\* such a file_id.
C1_StoreResolveRoundTrip ==
    /\ \A u \in returned :
          /\ find_file_by_id(store, u.file_id) =
                {[result |-> "found", path |-> u.filename]}
          /\ \E e \in {PNG, JPG, JPEG, WEBP} : u.filename = u.file_id \o e
          /\ store[u.filename] = u.content
          /\ u.content # ""
    /\ (resp.kind = "upload" /\ resp.status = 200) =>
          \E u \in returned : /\ u.file_id = resp.body.file_id
                              /\ u.filename = resp.body.filename

C1_Witness ==
    /\ resp.kind = "extract"
    /\ resp.status = 200
    /\ Cardinality(returned) = 2
    /\ \E u \in returned : /\ u.file_id = resp.file_id
                           /\ u.filename = u.file_id \o JPEG
                           /\ u.content = "IMG_TEXT"

\* C2 as stated: an identifier no upload was given matches no stored object,
\* whatever text it is (so that the lookup answers 404 for it).
C2_UnknownIdResolvesToNothing ==
    \A file_id \in RequestIds \ used : Matches(store, file_id) = {}

\* C3: a step that answers /upload with 400 leaves the store as it was, and
\* whenever the store changes it is for an upload whose declared content type
\* starts with image/ and whose body is not empty.
C3_RejectedUploadsStoreNothing ==
    [][ /\ (resp'.kind = "upload" /\ resp'.status = 400) =>
              (store' = store /\ returned' = returned)
        /\ (store' # store) =>
              \E p \in Uploading :
                  /\ local[p].content_type.given
                  /\ SubSeq(local[p].content_type.value, 1, 6) =
                        <<"i","m","a","g","e","/">>
                  /\ local'[p].content # "" \/ local[p].content # ""
                  /\ resp'.status # 400
      ]_vars

C3_Witness ==
    /\ resp.kind = "upload"
    /\ resp.status = 400
    /\ resp.body.detail = "Empty file."
    /\ used # {}
    /\ store = << >>

\* what C4 says the stored extension is: the lower-cased ending of the file
\* name when the name ends, behind at least one other character of its last
\* component, in one of the four extensions in any case; .png otherwise
HasExt(name, e) ==
    /\ Len(name) > Len(e)
    /\ Lower(SubSeq(name, Len(name) - Len(e) + 1, Len(name))) = e
    /\ name[Len(name) - Len(e)] # "/"

ExpectedExt(filename) ==
    IF filename.given /\ \E e \in {PNG, JPG, JPEG, WEBP} : HasExt(filename.name, e)
    THEN CHOOSE e \in {PNG, JPG, JPEG, WEBP} : HasExt(filename.name, e)
    ELSE PNG

\* C4: every upload that gets as far as storing is stored under file_id +
\* the extension C4 describes (photo.GIF -> .png, photo.JPG -> .jpg, no file
\* name -> .png), and every stored object's name ends in one of the four
\* extensions.
C4_ExtensionNormalization ==
    /\ \A p \in Uploading :
          /\ local[p].save_name = local[p].file_id \o ExpectedExt(local[p].filename)
          /\ local[p].filename = Named(<<"p","h","o","t","o",".","G","I","F">>)
                => EndsWith(local[p].save_name, PNG)
          /\ local[p].filename = Named(<<"p","h","o","t","o",".","J","P","G">>)
                => EndsWith(local[p].save_name, JPG)
          /\ local[p].filename = NoFilename => EndsWith(local[p].save_name, PNG)
          /\ pc[p] = "write" => local[p].save_name \in DOMAIN store
    /\ \A n \in DOMAIN store :
          \E id \in used, e \in {PNG, JPG, JPEG, WEBP} : n = id \o e

C4_Witness ==
    \E p \in Procs :
        /\ pc[p] = "write"
        /\ local[p].filename = Named(<<"p","h","o","t","o",".","J","P","G">>)
        /\ local[p].file_id \o JPG \in DOMAIN store

\* C5 as stated: a response of /extract or /parse is 404 exactly when the
\* identifier resolves to no stored object; otherwise 501 with ok:false when
\* OCR is unavailable, and then the adapter has never been invoked; otherwise
\* 500 with ok:false and a detail when the adapter fails on the resolved
\* object, and 200 with ok:true when it does not. The endpoint does not enter.
C5_StatusOrder ==
    /\ ~OCR_AVAILABLE => ~adapter_invoked
    /\ IsLookupResponse =>
          LET m == Matches(store, resp.file_id)
          IN  /\ (m = {}) <=> (resp.status = 404)
              /\ (m # {} /\ ~OCR_AVAILABLE) =>
                    /\ resp.status = 501
                    /\ resp.body.ok = FALSE
              /\ (m # {} /\ OCR_AVAILABLE) =>
                    \E n \in m :
                        IF image_to_string(store[n]).ok
                        THEN resp.status = 200 /\ resp.body.ok = TRUE
                        ELSE /\ resp.status = 500
                             /\ resp.body.ok = FALSE
                             /\ "detail" \in DOMAIN resp.body

IsFailure ==
    \/ resp.status \in {400, 404, 501}
    \/ resp.status = 500 /\ adapter_invoked /\ "plain" \notin DOMAIN resp.body

\* C6 as stated: every 400, 404, 501 and every 500 of a failed extraction
\* carries ok:false and an error field.
C6_UniformFailureShape ==
    IsFailure =>
        /\ "ok" \in DOMAIN resp.body
        /\ resp.body.ok = FALSE
        /\ "error" \in DOMAIN resp.body

\* C6 as amended: every 501 and every 500 of a failed extraction carries
\* ok:false and an error field (the 500 a detail as well); every 400 and
\* every 404 carries a detail field with the message and nothing else: no ok
\* flag and no error field.
C6_FailureShapes ==
    IsFailure =>
        IF resp.status \in {400, 404}
        THEN /\ DOMAIN resp.body = {"detail"}
             /\ resp.body.detail \in { "Only image uploads are supported.",
                                       "Empty file.",
                                       "File not found. Upload first." }
        ELSE /\ "ok" \in DOMAIN resp.body
             /\ resp.body.ok = FALSE
             /\ "error" \in DOMAIN resp.body
             /\ resp.status = 500 => "detail" \in DOMAIN resp.body

C6_Witness ==
    /\ resp.kind = "parse"
    /\ resp.status = 404
    /\ store # << >>

\* the text the OCR engine reads off the object a lookup response is about,
\* with its leading and trailing whitespace removed (lines 184 and 231)
StrippedTexts ==
    { Strip(image_to_string(store[n]).text) : n \in Matches(store, resp.file_id) }

\* C9 as stated: the text of /extract has at most 8000 characters, and the
\* signals of /parse are those of the first 8000 characters of the extracted
\* text.
C9_CapOnBothEndpoints ==
    (IsLookupResponse /\ resp.status = 200) =>
        \E raw \in StrippedTexts :
            IF resp.kind = "extract"
            THEN Len(resp.body.text) <= 8000
            ELSE resp.body.parsed.signals =
                    SignalsWithGaps(SubSeq(raw, 1, Min(8000, Len(raw))), {" ", "\n"})

\* C9 as amended: the text of /extract is the first 8000 characters of the
\* extracted text (all of it when it is shorter); /parse hands the whole
\* extracted text to the parser, so its signals are those of the whole text
\* (a keyword that occurs only after position 8000 sets its signal) and only
\* raw_sample is cut, to 500 characters.
C9_CapOnExtractOnly ==
    (IsLookupResponse /\ resp.status = 200) =>
        \E raw \in StrippedTexts :
            IF resp.kind = "extract"
            THEN /\ Len(resp.body.text) <= 8000
                 /\ resp.body.text = SubSeq(raw, 1, Min(8000, Len(raw)))
            ELSE /\ resp.body.parsed.signals = SignalsWithGaps(raw, {" ", "\n"})
                 /\ Len(resp.body.parsed.raw_sample) <= 500

C9_Witness ==
    /\ resp.kind = "parse"
    /\ resp.status = 200
    /\ \A n \in Matches(store, resp.file_id) : store[n] = "IMG_LONG"
    /\ resp.body.parsed.signals.mentions_over
    /\ resp.body.parsed.signals.mentions_total

\* C10: in every step of every interleaving, no stored object disappears, an
\* object whose bytes are written keeps them, a new object carries an
\* identifier no object had, no two objects share an identifier, a step of
\* /extract or /parse leaves the store as it is, and every identifier an
\* upload returned resolves to the same single object before and after.
C10_WriteOnceStore ==
    [][ /\ \A n \in DOMAIN store :
              /\ n \in DOMAIN store'
              /\ store[n] # "" => store'[n] = store[n]
        /\ \A n \in (DOMAIN store') \ (DOMAIN store) :
              /\ IdOf(n) \notin {IdOf(m) : m \in DOMAIN store}
              /\ IdOf(n) \in used /\ IdOf(n) \in Uuids
        /\ \A n1, n2 \in DOMAIN store' : IdOf(n1) = IdOf(n2) => n1 = n2
        /\ used \subseteq used'
        /\ (\/ resp'.kind \in {"extract", "parse"}
            \/ \E p \in Procs : pc[p] = "idle" /\ pc'[p] = "ocr")
              => store' = store
        /\ \A u \in returned :
              /\ Matches(store, u.file_id) = {u.filename}
              /\ Matches(store', u.file_id) = {u.filename}
              /\ store'[u.filename] = u.content
      ]_vars

C10_Witness ==
    /\ Cardinality(returned) = 1
    /\ pc[1] = "write"
    /\ pc[2] = "ocr"
    /\ \E u \in returned : local[2].img_path = u.filename /\ local[2].file_id = <<"*">>

====
